---- MODULE Spec2Model ----
(***************************************************************************)
(* A model of thor_devkit/transaction.py: the Clause / Reserved / Body     *)
(* value objects, the reserved-field canonicalizer, the signing hash, the  *)
(* signature accessors, the intrinsic-gas estimator and encode / decode.   *)
(*                                                                         *)
(* Conventions.                                                            *)
(*   - A Python Optional is a sequence of length 0 (None) or 1 (a value).  *)
(*   - bytes are sequences of integers 0..255; a str is a sequence of      *)
(*     one-character strings.                                              *)
(*   - A call's outcome is [tag |-> "ok", val |-> v] when it returns v and *)
(*     [tag |-> "raise", val |-> message] when it raises.                  *)
(*   - The rlp codec, blake2b256, secp256k1.recover and the address        *)
(*     helpers are collaborators of transaction.py that are modelled from  *)
(*     their described behaviour.                                          *)
(***************************************************************************)
EXTENDS Integers, Sequences, FiniteSets, TLC

VARIABLES body, signature, other, op, arg, ret

vars == <<body, signature, other, op, arg, ret>>

(***************************************************************************)
(* Python values                                                           *)
(***************************************************************************)
None == <<>>

Some(x) == <<x>>

IsNone(o) == Len(o) = 0

Get(o) == o[1]

\* Truthiness of an Optional int: None and 0 are falsy.
TruthyInt(o) == Len(o) = 1 /\ o[1] # 0

\* Truthiness of an Optional sequence (list, bytes, str): None and empty are falsy.
TruthySeq(o) == Len(o) = 1 /\ Len(o[1]) > 0

Ok(v) == [tag |-> "ok", val |-> v]

Raise(msg) == [tag |-> "raise", val |-> msg]

IsOk(r) == r.tag = "ok"

Repeat(x, n) == [i \in 1..n |-> x]

(***************************************************************************)
(* Hex strings                                                             *)
(***************************************************************************)
HexDigits == <<"0", "1", "2", "3", "4", "5", "6", "7", "8", "9", "a", "b", "c", "d", "e", "f">>

HexVal(c) == (CHOOSE i \in 1..16 : HexDigits[i] = c) - 1

IsHexDigit(c) == \E i \in 1..16 : HexDigits[i] = c

\* bytes.hex(): two lower-case digits per byte.
RECURSIVE BytesHex(_)
BytesHex(b) ==
  IF Len(b) = 0 THEN <<>>
  ELSE <<HexDigits[(b[1] \div 16) + 1], HexDigits[(b[1] % 16) + 1]>> \o BytesHex(Tail(b))

\* bytes.fromhex(): the digits taken two by two.
RECURSIVE FromHex(_)
FromHex(s) ==
  IF Len(s) < 2 THEN <<>>
  ELSE <<16 * HexVal(s[1]) + HexVal(s[2])>> \o FromHex(SubSeq(s, 3, Len(s)))

\* '0x' + b.hex()
HexStr(b) == <<"0", "x">> \o BytesHex(b)

\* A '0x...' string of whole bytes.
IsHexString(s) ==
  /\ Len(s) >= 2
  /\ s[1] = "0"
  /\ s[2] = "x"
  /\ Len(s) % 2 = 0
  /\ \A i \in 3..Len(s) : IsHexDigit(s[i])

(***************************************************************************)
(* The rlp kinds used by the schemas of transaction.py lines 17-40         *)
(***************************************************************************)
\* An unsigned integer as big-endian bytes without leading zeros (0 is b'').
RECURSIVE BigEndian(_)
BigEndian(n) == IF n = 0 THEN <<>> ELSE Append(BigEndian(n \div 256), n % 256)

RECURSIVE FromBigEndian(_)
FromBigEndian(b) ==
  IF Len(b) = 0 THEN 0 ELSE 256 * FromBigEndian(SubSeq(b, 1, Len(b) - 1)) + b[Len(b)]

RECURSIVE StripLeadingZeros(_)
StripLeadingZeros(b) ==
  IF Len(b) > 0 /\ b[1] = 0 THEN StripLeadingZeros(Tail(b)) ELSE b

\* NumericKind(max_bytes).serialize: the value must fit in max_bytes bytes.
NumericSerialize(n, max_bytes) ==
  IF Len(BigEndian(n)) > max_bytes
  THEN Raise("SerializationError")
  ELSE Ok(BigEndian(n))

\* NumericKind(max_bytes).deserialize: overlong input and leading zeros are rejected.
NumericDeserialize(b, max_bytes) ==
  IF Len(b) > max_bytes \/ (Len(b) > 0 /\ b[1] = 0)
  THEN Raise("DeserializationError")
  ELSE Ok(FromBigEndian(b))

\* CompactFixedBlobKind(n): exactly n bytes, carried without their leading zeros.
CompactFixedBlobSerialize(s, n) ==
  IF ~IsHexString(s) \/ Len(FromHex(SubSeq(s, 3, Len(s)))) # n
  THEN Raise("SerializationError")
  ELSE Ok(StripLeadingZeros(FromHex(SubSeq(s, 3, Len(s)))))

CompactFixedBlobDeserialize(b, n) ==
  IF Len(b) > n \/ (Len(b) > 0 /\ b[1] = 0)
  THEN Raise("DeserializationError")
  ELSE Ok(HexStr(Repeat(0, n - Len(b)) \o b))

\* NoneableFixedBlobKind(n): None is b'', anything else is exactly n bytes.
NoneableFixedBlobSerialize(o, n) ==
  IF IsNone(o) THEN Ok(<<>>)
  ELSE IF ~IsHexString(Get(o)) \/ Len(FromHex(SubSeq(Get(o), 3, Len(Get(o))))) # n
  THEN Raise("SerializationError")
  ELSE Ok(FromHex(SubSeq(Get(o), 3, Len(Get(o)))))

NoneableFixedBlobDeserialize(b, n) ==
  IF Len(b) = 0 THEN Ok(None)
  ELSE IF Len(b) # n THEN Raise("DeserializationError")
  ELSE Ok(Some(HexStr(b)))

\* BlobKind: a '0x...' string of whole bytes.
BlobSerialize(s) ==
  IF ~IsHexString(s) THEN Raise("SerializationError") ELSE Ok(FromHex(SubSeq(s, 3, Len(s))))

BlobDeserialize(b) == Ok(HexStr(b))

\* FeaturesKind = NumericKind(4)
FeaturesWidth == 4

FeaturesKindSerialize(f) == NumericSerialize(f, FeaturesWidth)

FeaturesKindDeserialize(b) == NumericDeserialize(b, FeaturesWidth)

ChainTagWidth == 1

BlockRefWidth == 8

ExpirationWidth == 4

ToWidth == 20

ValueWidth == 32

GasPriceCoefWidth == 1

GasWidth == 8

DependsOnWidth == 32

NonceWidth == 8

(***************************************************************************)
(* Value objects                                                           *)
(***************************************************************************)
Clause(to, value, data) == [to |-> to, value |-> value, data |-> data]

ClauseToDict(c) == [to |-> c.to, value |-> c.value, data |-> c.data]

Reserved(features, unused) == [features |-> features, unused |-> unused]

Body(chain_tag, block_ref, expiration, clauses, gas_price_coef, gas, depends_on, nonce, reserved) ==
  [chain_tag |-> chain_tag, block_ref |-> block_ref, expiration |-> expiration,
   clauses |-> clauses, gas_price_coef |-> gas_price_coef, gas |-> gas,
   depends_on |-> depends_on, nonce |-> nonce, reserved |-> reserved]

\* Body.to_dict: the key 'reserved' is there iff a Reserved object is; inside it
\* 'features' and 'unused' are there iff they are truthy.
BodyToDict(b) ==
  [chainTag |-> b.chain_tag,
   blockRef |-> b.block_ref,
   expiration |-> b.expiration,
   clauses |-> [i \in 1..Len(b.clauses) |-> ClauseToDict(b.clauses[i])],
   gasPriceCoef |-> b.gas_price_coef,
   gas |-> b.gas,
   dependsOn |-> b.depends_on,
   nonce |-> b.nonce,
   reserved |->
     IF IsNone(b.reserved) THEN None
     ELSE Some([features |-> IF TruthyInt(Get(b.reserved).features)
                             THEN Get(b.reserved).features ELSE None,
                unused |-> IF TruthySeq(Get(b.reserved).unused)
                           THEN Get(b.reserved).unused ELSE None])]

\* `not d.get('reserved')`: the key is missing or its dict is empty.
ReservedDictFalsy(d) ==
  IsNone(d.reserved) \/ (IsNone(Get(d.reserved).features) /\ IsNone(Get(d.reserved).unused))

(***************************************************************************)
(* Gas estimator                                                           *)
(***************************************************************************)
Z_GAS == 4

NZ_GAS == 68

TX_GAS == 5000

CLAUSE_GAS == 16000

CLAUSE_CONTRACT_CREATION == 48000

\* The loop of data_gas from 0-based index x on; data[x+1] past the end raises.
RECURSIVE DataGasLoop(_, _, _)
DataGasLoop(data, x, sum_up) ==
  IF x >= Len(data) THEN Ok(sum_up)
  ELSE IF data[x + 1] = "0"
       THEN IF x + 1 >= Len(data) THEN Raise("IndexError")
            ELSE IF data[x + 2] = "0"
                 THEN DataGasLoop(data, x + 2, sum_up + Z_GAS)
                 ELSE DataGasLoop(data, x + 2, sum_up + NZ_GAS)
       ELSE DataGasLoop(data, x + 2, sum_up + NZ_GAS)

\* data_gas starting at index 0: the '0x' prefix is counted as a byte.
DataGasWithPrefix(data) == DataGasLoop(data, 0, 0)

data_gas(data) == DataGasLoop(data, 2, 0)

RECURSIVE IntrinsicGasLoop(_, _, _)
IntrinsicGasLoop(clauses, i, sum_total) ==
  IF i > Len(clauses) THEN Ok(sum_total)
  ELSE LET clause == clauses[i]
           base == IF TruthySeq(clause.to) THEN CLAUSE_GAS ELSE CLAUSE_CONTRACT_CREATION
           dg == data_gas(clause.data)
       IN IF ~IsOk(dg) THEN dg
          ELSE IntrinsicGasLoop(clauses, i + 1, sum_total + base + dg.val)

intrinsic_gas(clauses) ==
  IF Len(clauses) = 0 THEN Ok(TX_GAS + CLAUSE_GAS)
  ELSE IntrinsicGasLoop(clauses, 1, TX_GAS)

(***************************************************************************)
(* The codec over the two schemas, lines 20-40.  The wire form is the      *)
(* list of serialized items: nine of them, and the signature as a tenth    *)
(* in the signed schema (wire.signature is None in a nine-item list).      *)
(***************************************************************************)
\* r's value handed to F when r is a returned value; r itself when it is a raise.
AndThen(r, F(_)) == IF IsOk(r) THEN F(r.val) ELSE r

\* The values of a record or sequence of outcomes, or the error when one raised.
Collect(items, error) ==
  IF \A k \in DOMAIN items : IsOk(items[k])
  THEN Ok([k \in DOMAIN items |-> items[k].val])
  ELSE Raise(error)

ClausePack(c) ==
  Collect([to |-> NoneableFixedBlobSerialize(c.to, ToWidth),
           value |-> NumericSerialize(c.value, ValueWidth),
           data |-> BlobSerialize(c.data)], "SerializationError")

ClauseUnpack(w) ==
  Collect([to |-> NoneableFixedBlobDeserialize(w.to, ToWidth),
           value |-> NumericDeserialize(w.value, ValueWidth),
           data |-> BlobDeserialize(w.data)], "DeserializationError")

\* ComplexCodec(wrapper).encode(temp): temp is the body dict with 'reserved'
\* replaced by a list and, in the signed schema, 'signature' added.
ComplexCodecEncode(temp, signed) ==
  Collect([chainTag |-> NumericSerialize(temp.chainTag, ChainTagWidth),
           blockRef |-> CompactFixedBlobSerialize(temp.blockRef, BlockRefWidth),
           expiration |-> NumericSerialize(temp.expiration, ExpirationWidth),
           clauses |-> Collect([i \in 1..Len(temp.clauses) |-> ClausePack(temp.clauses[i])],
                               "SerializationError"),
           gasPriceCoef |-> NumericSerialize(temp.gasPriceCoef, GasPriceCoefWidth),
           gas |-> NumericSerialize(temp.gas, GasWidth),
           dependsOn |-> NoneableFixedBlobSerialize(temp.dependsOn, DependsOnWidth),
           nonce |-> NumericSerialize(temp.nonce, NonceWidth),
           reserved |-> Ok(temp.reserved),
           signature |-> Ok(IF signed THEN Some(temp.signature) ELSE None)],
          "SerializationError")

\* ComplexCodec(wrapper).decode(raw): the item count must be the schema's.
ComplexCodecDecode(raw, signed) ==
  IF signed # ~IsNone(raw.signature) THEN Raise("DeserializationError")
  ELSE Collect([chainTag |-> NumericDeserialize(raw.chainTag, ChainTagWidth),
                blockRef |-> CompactFixedBlobDeserialize(raw.blockRef, BlockRefWidth),
                expiration |-> NumericDeserialize(raw.expiration, ExpirationWidth),
                clauses |-> Collect([i \in 1..Len(raw.clauses) |-> ClauseUnpack(raw.clauses[i])],
                                    "DeserializationError"),
                gasPriceCoef |-> NumericDeserialize(raw.gasPriceCoef, GasPriceCoefWidth),
                gas |-> NumericDeserialize(raw.gas, GasWidth),
                dependsOn |-> NoneableFixedBlobDeserialize(raw.dependsOn, DependsOnWidth),
                nonce |-> NumericDeserialize(raw.nonce, NonceWidth),
                reserved |-> Ok(raw.reserved),
                signature |-> Ok(raw.signature)],
               "DeserializationError")

(***************************************************************************)
(* Hash, signature and address primitives                                  *)
(***************************************************************************)
\* An unsigned nine-item list with every item empty.
EmptyWire ==
  [chainTag |-> <<>>, blockRef |-> <<>>, expiration |-> <<>>, clauses |-> <<>>,
   gasPriceCoef |-> <<>>, gas |-> <<>>, dependsOn |-> <<>>, nonce |-> <<>>,
   reserved |-> <<>>, signature |-> None]

\* blake2b256([buff]) of an encoded list: the digest stands for its preimage, so
\* two digests are equal exactly when what was hashed is.
Blake2bOfWire(buff) == [pre |-> buff, ext |-> <<>>]

\* blake2b256([h, x]) of a digest h followed by the bytes x.
Blake2bExtend(h, x) == [pre |-> h.pre, ext |-> Append(h.ext, x)]

NoDigest == Blake2bOfWire(EmptyWire)

Keys == {"A", "B"}

AddressLen == 20

\* address.public_key_to_address: the 20 bytes of a public key's address.
PublicKeyToAddress(pub) ==
  CASE pub = "A" -> Repeat(161, AddressLen)
    [] pub = "B" -> Repeat(178, AddressLen)
    [] OTHER -> Repeat(238, AddressLen)

\* address.is_address: '0x' and 40 hex digits.
IsAddress(s) == IsHexString(s) /\ Len(s) = 2 + 2 * AddressLen

SigLen == 65

\* A signature byte is written <<signer, digest>>: the 65 bytes that key k
\* makes over digest h carry (k, h) in the first and k in the others.
Sign(k, h) == <<<<k, h>>>> \o Repeat(<<k, NoDigest>>, SigLen - 1)

\* Bytes no key made.
Junk(n) == Repeat(<<"junk", NoDigest>>, n)

\* secp256k1.recover(h, sig): the signer's public key when sig is that key's
\* signature over h, some unrelated key when it is over another digest, and
\* an error when sig is not 65 bytes or is bytes no key made.
Recover(h, sig) ==
  IF Len(sig) # SigLen THEN Raise("ValueError")
  ELSE IF sig[1][1] \notin Keys THEN Raise("ValueError")
  ELSE IF sig[1][2] = h THEN Ok(sig[1][1])
  ELSE Ok("X")

(***************************************************************************)
(* Transaction                                                             *)
(***************************************************************************)
DELEGATED_MASK == 1

Transaction(b) == [body |-> b, signature |-> None]

\* a & b on naturals
RECURSIVE BitAnd(_, _)
BitAnd(a, b) ==
  IF a = 0 \/ b = 0 THEN 0
  ELSE 2 * BitAnd(a \div 2, b \div 2) + (IF a % 2 = 1 /\ b % 2 = 1 THEN 1 ELSE 0)

\* s[lo:hi] of Python, 0-based, clipped to the sequence.
Slice(s, lo, hi) == SubSeq(s, lo + 1, IF hi < Len(s) THEN hi ELSE Len(s))

\* ExceptReturnNone without the except: the error goes to the caller.
NoExcept(r) == r

\* try: ... except: return None
ExceptReturnNone(r) == IF IsOk(r) THEN r ELSE Ok(None)

\* The scan of _encode_reserved from 0-based index i down to 0: the right-most
\* index whose length is not 0, or None.
RECURSIVE RightMostNoneEmpty(_, _)
RightMostNoneEmpty(length_list, i) ==
  IF i < 0 THEN None
  ELSE IF length_list[i + 1] # 0 THEN Some(i)
  ELSE RightMostNoneEmpty(length_list, i - 1)

\* The end of _encode_reserved, lines 241-248.
ReturnList(m_list, right_most_none_empty) ==
  IF IsNone(right_most_none_empty) THEN <<>>
  ELSE SubSeq(m_list, 1, Get(right_most_none_empty) + 1)

\* RightStrip without the strip: the candidate list as it is.
NoRightStrip(m_list) == m_list

\* Lines 233-248: the list cut after its right-most non-empty element.
RightStrip(m_list) ==
  ReturnList(m_list, RightMostNoneEmpty([i \in 1..Len(m_list) |-> Len(m_list[i])],
                                        Len(m_list) - 1))

\* Lines 227-229, from the Reserved object chosen at lines 221-225.
MList(reserved) ==
  AndThen(FeaturesKindSerialize(IF TruthyInt(reserved.features)
                                THEN Get(reserved.features) ELSE 0),
          LAMBDA ser : Ok(<<ser>> \o (IF TruthySeq(reserved.unused)
                                      THEN Get(reserved.unused) ELSE <<>>)))

encode_reserved(b) ==
  AndThen(MList(IF ReservedDictFalsy(BodyToDict(b)) THEN Reserved(None, None)
                ELSE Get(b.reserved)),
          LAMBDA m_list : Ok(RightStrip(m_list)))

\* TempDict that forgets the nonce.
TempDictNoNonce(d, reserved_list, sig) ==
  [chainTag |-> d.chainTag,
   blockRef |-> d.blockRef,
   expiration |-> d.expiration,
   clauses |-> d.clauses,
   gasPriceCoef |-> d.gasPriceCoef,
   gas |-> d.gas,
   dependsOn |-> d.dependsOn,
   nonce |-> 0,
   reserved |-> reserved_list,
   signature |-> sig]

\* The dict handed to the codec: the body dict d with 'reserved' replaced by
\* the list, and 'signature' added when there is one.
TempDict(d, reserved_list, sig) ==
  [chainTag |-> d.chainTag,
   blockRef |-> d.blockRef,
   expiration |-> d.expiration,
   clauses |-> d.clauses,
   gasPriceCoef |-> d.gasPriceCoef,
   gas |-> d.gas,
   dependsOn |-> d.dependsOn,
   nonce |-> d.nonce,
   reserved |-> reserved_list,
   signature |-> sig]

\* Lines 257-263 of get_signing_hash, from the digest h of the encoded body.
DelegateHash(h, delegate_for) ==
  IF TruthySeq(delegate_for)
  THEN IF ~IsAddress(Get(delegate_for))
       THEN Raise("delegate_for should be an address type.")
       ELSE Ok(Blake2bExtend(h, FromHex(SubSeq(Get(delegate_for), 3, Len(Get(delegate_for))))))
  ELSE Ok(h)

get_signing_hash(b, delegate_for) ==
  AndThen(encode_reserved(b), LAMBDA reserved_list :
    AndThen(ComplexCodecEncode(TempDict(BodyToDict(b), reserved_list, <<>>), FALSE),
            LAMBDA buff : DelegateHash(Blake2bOfWire(buff), delegate_for)))

get_intrinsic_gas(b) == intrinsic_gas(b.clauses)

\* FeaturesDelegated without the mask: any non-zero features.
FeaturesNonZero(r) == TruthyInt(r.features)

\* Lines 313-316 of is_delegated, from the non-empty 'reserved' dict r.
FeaturesDelegated(r) ==
  IF ~TruthyInt(r.features) THEN FALSE
  ELSE BitAnd(Get(r.features), DELEGATED_MASK) = DELEGATED_MASK

is_delegated(b) ==
  IF ReservedDictFalsy(BodyToDict(b)) THEN FALSE
  ELSE FeaturesDelegated(Get(BodyToDict(b).reserved))

\* signature_valid without the length test.
SignaturePresent(b, sig) == TruthySeq(sig)

signature_valid(b, sig) ==
  IF ~TruthySeq(sig) THEN FALSE
  ELSE Len(Get(sig)) = (IF is_delegated(b) THEN SigLen * 2 ELSE SigLen)

\* '0x' + address.public_key_to_address(pub_key).hex()
AddressOf(pub_key) == Ok(Some(HexStr(PublicKeyToAddress(pub_key))))

\* The try block of get_origin.
GetOriginTry(b, sig) ==
  AndThen(get_signing_hash(b, None), LAMBDA my_sign_hash :
    AndThen(Recover(my_sign_hash, Slice(Get(sig), 0, SigLen)), AddressOf))

get_origin(b, sig) ==
  IF ~signature_valid(b, sig) THEN Ok(None) ELSE ExceptReturnNone(GetOriginTry(b, sig))

\* GetDelegatorTry recovering from the first 65 bytes instead of the last.
GetDelegatorTryFirstHalf(b, sig, origin) ==
  AndThen(get_signing_hash(b, origin), LAMBDA my_sign_hash :
    AndThen(Recover(my_sign_hash, Slice(Get(sig), 0, SigLen)), AddressOf))

\* The try block of get_delegator.
GetDelegatorTry(b, sig, origin) ==
  AndThen(get_signing_hash(b, origin), LAMBDA my_sign_hash :
    AndThen(Recover(my_sign_hash, Slice(Get(sig), SigLen, Len(Get(sig)))), AddressOf))

get_delegator(b, sig) ==
  IF ~is_delegated(b) THEN Ok(None)
  ELSE IF ~signature_valid(b, sig) THEN Ok(None)
  ELSE AndThen(get_origin(b, sig), LAMBDA origin :
         IF ~TruthySeq(origin) THEN Ok(None)
         ELSE ExceptReturnNone(GetDelegatorTry(b, sig, origin)))

\* '0x' + digest.hex()
DigestHex(d) == <<"0x", d>>

\* The try block of get_id.
GetIdTry(b, sig) ==
  AndThen(get_signing_hash(b, None), LAMBDA my_sign_hash :
    AndThen(Recover(my_sign_hash, Slice(Get(sig), 0, SigLen)), LAMBDA pub_key :
      Ok(Some(DigestHex(Blake2bExtend(my_sign_hash, PublicKeyToAddress(pub_key)))))))

get_id(b, sig) ==
  IF ~signature_valid(b, sig) THEN Ok(None) ELSE ExceptReturnNone(GetIdTry(b, sig))

encode(b, sig) ==
  AndThen(encode_reserved(b), LAMBDA reserved_list :
    IF TruthySeq(sig)
    THEN ComplexCodecEncode(TempDict(BodyToDict(b), reserved_list, Get(sig)), TRUE)
    ELSE ComplexCodecEncode(TempDict(BodyToDict(b), reserved_list, <<>>), FALSE))

\* Lines 386-413 of decode: the Transaction built from the decoded dict, its
\* Reserved (None when the list was empty) and the signature.
BuildTransaction(d, reserved, sig) ==
  [body |-> Body(d.chainTag, d.blockRef, d.expiration,
                 [i \in 1..Len(d.clauses) |->
                    Clause(d.clauses[i].to, d.clauses[i].value, d.clauses[i].data)],
                 d.gasPriceCoef, d.gas, d.dependsOn, d.nonce, reserved),
   signature |-> IF TruthySeq(sig) THEN sig ELSE None]

\* DecodeReserved without line 382: the unused elements are dropped.
DecodeReservedFeaturesOnly(r) ==
  IF Len(r) > 0
  THEN IF Len(r[Len(r)]) = 0
       THEN Raise("invalid reserved fields: not trimmed.")
       ELSE AndThen(FeaturesKindDeserialize(r[1]), LAMBDA features :
              Ok(Some(Reserved(Some(features), None))))
  ELSE Ok(None)

\* DecodeReserved without lines 374-375: an untrimmed list is accepted.
DecodeReservedUnchecked(r) ==
  IF Len(r) > 0
  THEN AndThen(FeaturesKindDeserialize(r[1]), LAMBDA features :
         Ok(Some(Reserved(Some(features), IF Len(r) > 1 THEN Some(Tail(r)) ELSE None))))
  ELSE Ok(None)

\* Lines 372-396 of decode, on the decoded list r: the Reserved of the Body.
DecodeReserved(r) ==
  IF Len(r) > 0
  THEN IF Len(r[Len(r)]) = 0
       THEN Raise("invalid reserved fields: not trimmed.")
       ELSE AndThen(FeaturesKindDeserialize(r[1]), LAMBDA features :
              Ok(Some(Reserved(Some(features), IF Len(r) > 1 THEN Some(Tail(r)) ELSE None))))
  ELSE Ok(None)

\* Transaction.decode: the outcome is the new Transaction [body, signature].
decode(raw, unsigned) ==
  AndThen(ComplexCodecDecode(raw, ~unsigned), LAMBDA decoded :
    AndThen(DecodeReserved(decoded.reserved), LAMBDA reserved :
      Ok(BuildTransaction(decoded, reserved, IF unsigned THEN None ELSE decoded.signature))))

\* Transaction.__eq__
TxEq(self, that) ==
  /\ self.signature = that.signature
  /\ BodyToDict(self.body) = BodyToDict(that.body)

(***************************************************************************)
(* Inputs                                                                  *)
(***************************************************************************)
\* The longest `unused` list of a Reserved.
MaxUnused == 2

SeqsUpTo(S, n) == UNION {[1..k -> S] : k \in 0..n}

UnusedElems == {<<>>, <<1>>}

FeatureValues == {0, 1, 2, 3, 5, 256}

ReservedValues ==
  {None} \cup
  {Some(Reserved(f, u)) :
     f \in {None} \cup {Some(n) : n \in FeatureValues},
     u \in {None} \cup {Some(l) : l \in SeqsUpTo(UnusedElems, MaxUnused)}}

ToAddress == HexStr(Repeat(17, ToWidth))

BlockRef == HexStr(<<0, 0, 0, 0, 170, 187, 204, 221>>)

DependsOnId == HexStr(Repeat(9, DependsOnWidth))

BaseBody(clauses, reserved) ==
  Body(74, BlockRef, 32, clauses, 128, 21000, None, 12345, reserved)

\* A chain tag that does not fit its one byte: the body cannot be encoded.
UnencodableBody(reserved) ==
  Body(256, BlockRef, 32, <<>>, 128, 21000, None, 12345, reserved)

AccessorBodies ==
  {BaseBody(<<Clause(Some(ToAddress), 1, <<"0", "x">>)>>, r) : r \in ReservedValues}
  \cup {UnencodableBody(None), UnencodableBody(Some(Reserved(Some(1), None)))}

AddressA == HexStr(PublicKeyToAddress("A"))

AddressB == HexStr(PublicKeyToAddress("B"))

\* The signatures the keys A and B make over the digests h and hd.
SignedChoices(h, hd) ==
  IF IsOk(h) /\ IsOk(hd)
  THEN {Some(Sign("A", h.val)),
        Some(Sign("A", h.val) \o Sign("B", hd.val)),
        Some(Sign("B", hd.val) \o Sign("A", h.val)),
        Some(Sign("A", h.val) \o Junk(SigLen)),
        Some(Junk(SigLen) \o Sign("B", hd.val))}
  ELSE {}

\* The signatures a caller stores: None, byte strings of the lengths around 65
\* and 130 that no key made, and the ones the keys A and B make over the
\* body's signing hashes.
SignatureChoices(b) ==
  {None}
  \cup {Some(Junk(n)) : n \in {0, SigLen - 1, SigLen, SigLen + 1,
                               2 * SigLen - 1, 2 * SigLen, 2 * SigLen + 1}}
  \cup SignedChoices(get_signing_hash(b, None), get_signing_hash(b, Some(AddressA)))

\* What a caller passes as delegate_for: nothing, the empty string, a string
\* that is no address, and two addresses.
DelegateForChoices ==
  {None, Some(<<>>), Some(<<"0", "x", "z", "z">>), Some(AddressA), Some(AddressB)}

(***************************************************************************)
(* The state: one Transaction (body, signature), a second instance         *)
(* (other), and the last call made with its argument and its outcome.      *)
(***************************************************************************)
Called(name, a, r) == op' = name /\ arg' = a /\ ret' = r

Constructed(bodies) ==
  /\ body \in bodies
  /\ signature = None
  /\ other = Transaction(BaseBody(<<>>, None))
  /\ op = "init"
  /\ arg = None
  /\ ret = Ok(None)

SetSignatureFrom(choices) ==
  \E sig \in choices :
    /\ signature' = sig
    /\ Called("set_signature", sig, Ok(None))
    /\ UNCHANGED <<body, other>>

SetSignature == SetSignatureFrom(SignatureChoices(body))

EncodeReserved ==
  /\ Called("_encode_reserved", None, encode_reserved(body))
  /\ UNCHANGED <<body, signature, other>>

IsDelegated ==
  /\ Called("is_delegated", None, Ok(is_delegated(body)))
  /\ UNCHANGED <<body, signature, other>>

GetSigningHash ==
  \E delegate_for \in DelegateForChoices :
    /\ Called("get_signing_hash", delegate_for, get_signing_hash(body, delegate_for))
    /\ UNCHANGED <<body, signature, other>>

GetOrigin ==
  /\ Called("get_origin", None, get_origin(body, signature))
  /\ UNCHANGED <<body, signature, other>>

GetDelegator ==
  /\ Called("get_delegator", None, get_delegator(body, signature))
  /\ UNCHANGED <<body, signature, other>>

GetId ==
  /\ Called("get_id", None, get_id(body, signature))
  /\ UNCHANGED <<body, signature, other>>

Init == Constructed(AccessorBodies)

Next ==
  \/ SetSignature
  \/ EncodeReserved
  \/ IsDelegated
  \/ GetSigningHash
  \/ GetOrigin
  \/ GetDelegator
  \/ GetId

Spec == Init /\ [][Next]_vars

(***************************************************************************)
(* The gas estimator: intrinsic_gas on clause lists, get_intrinsic_gas on   *)
(* the transaction's own                                                   *)
(***************************************************************************)
\* The longest clause list handed to the gas estimator.
MaxClauses == 3

GasData ==
  {<<"0", "x">>,
   <<"0", "x", "0", "0", "f", "f">>,
   <<"0", "x", "0", "f">>,
   <<"0", "x", "0">>}

GasClauses == {Clause(to, 0, data) : to \in {None, Some(ToAddress)}, data \in GasData}

GasClauseLists == SeqsUpTo(GasClauses, MaxClauses)

\* The clause lists of the documented examples.
GasExamples ==
  {<<>>,
   <<Clause(Some(ToAddress), 0, <<"0", "x">>)>>,
   <<Clause(None, 0, <<"0", "x">>)>>,
   <<Clause(Some(ToAddress), 0, <<"0", "x", "0", "0", "f", "f">>)>>}

IntrinsicGas ==
  \E clauses \in GasExamples :
    /\ Called("intrinsic_gas", clauses, intrinsic_gas(clauses))
    /\ UNCHANGED <<body, signature, other>>

GetIntrinsicGas ==
  /\ Called("get_intrinsic_gas", body.clauses, get_intrinsic_gas(body))
  /\ UNCHANGED <<body, signature, other>>

InitGas == Constructed({BaseBody(clauses, None) : clauses \in GasClauseLists})

NextGas == IntrinsicGas \/ GetIntrinsicGas

SpecGas == InitGas /\ [][NextGas]_vars

(***************************************************************************)
(* Encode, then decode what was encoded                                    *)
(***************************************************************************)
CodecClause(i) ==
  IF i = 2 THEN Clause(None, 0, <<"0", "x", "6", "0">>)
  ELSE Clause(Some(ToAddress), i, <<"0", "x", "0", "0", "f", "f">>)

\* Clause lists of 0, 1 and 3 clauses.
CodecClauseLists == {[i \in 1..n |-> CodecClause(i)] : n \in {0, 1, 3}}

CodecBodies ==
  {Body(74, BlockRef, 32, clauses, 128, 21000, depends_on, 12345, reserved) :
     clauses \in CodecClauseLists,
     depends_on \in {None, Some(DependsOnId)},
     reserved \in ReservedValues}

CodecSignatureChoices == {None, Some(<<>>), Some(Junk(SigLen)), Some(Junk(2 * SigLen))}

Encode ==
  /\ Called("encode", None, encode(body, signature))
  /\ UNCHANGED <<body, signature, other>>

\* Transaction.decode(tx.encode(), unsigned = (tx.signature is None))
DecodeEncoded ==
  /\ op = "encode"
  /\ IsOk(ret)
  /\ Called("decode", [raw |-> ret.val, unsigned |-> IsNone(signature)],
            decode(ret.val, IsNone(signature)))
  /\ UNCHANGED <<body, signature, other>>

InitCodec == Constructed(CodecBodies)

NextCodec == SetSignatureFrom(CodecSignatureChoices) \/ Encode \/ DecodeEncoded

SpecCodec == InitCodec /\ [][NextCodec]_vars

(***************************************************************************)
(* Decode of lists that were put together by hand                          *)
(***************************************************************************)
RawReservedElems == {<<>>, <<1>>, <<5>>, <<0, 1>>, <<1, 0>>}

RawReservedLists == SeqsUpTo(RawReservedElems, MaxUnused + 1)

\* The items of a Body with no clause, a block reference of nine bytes when
\* long is TRUE.
RawWire(long, reserved, sig) ==
  [chainTag |-> <<74>>,
   blockRef |-> IF long THEN Repeat(1, BlockRefWidth + 1) ELSE <<170, 187, 204, 221>>,
   expiration |-> <<32>>,
   clauses |-> <<>>,
   gasPriceCoef |-> <<128>>,
   gas |-> <<82, 8>>,
   dependsOn |-> <<>>,
   nonce |-> <<48, 57>>,
   reserved |-> reserved,
   signature |-> sig]

Raws ==
  {RawWire(long, reserved, sig) :
     long \in BOOLEAN,
     reserved \in RawReservedLists,
     sig \in {None, Some(<<>>), Some(Junk(SigLen))}}

\* Transaction.decode(raw, unsigned) of the bytes at hand.
Decode ==
  /\ op = "received"
  /\ Called("decode", arg, decode(arg.raw, arg.unsigned))
  /\ UNCHANGED <<body, signature, other>>

\* Some bytes are at hand, with the schema the caller will ask for.
InitDecode ==
  /\ body = BaseBody(<<>>, None)
  /\ signature = None
  /\ other = Transaction(BaseBody(<<>>, None))
  /\ op = "received"
  /\ arg \in {[raw |-> raw, unsigned |-> unsigned] : raw \in Raws, unsigned \in BOOLEAN}
  /\ ret = Ok(None)

NextDecode == Decode

SpecDecode == InitDecode /\ [][NextDecode]_vars

(***************************************************************************)
(* Two Transaction instances and their ids                                 *)
(***************************************************************************)
IdBase == BaseBody(<<Clause(Some(ToAddress), 1, <<"0", "x">>)>>, None)

IdReserved ==
  {Some(Reserved(None, None)),
   Some(Reserved(Some(0), Some(<<>>))),
   Some(Reserved(Some(1), None)),
   Some(Reserved(Some(1), Some(<<<<>>>>))),
   Some(Reserved(Some(1), Some(<<<<1>>>>)))}

\* IdBase, and IdBase with one field changed.
IdBodies ==
  {IdBase,
   [IdBase EXCEPT !.chain_tag = 75],
   [IdBase EXCEPT !.block_ref = HexStr(<<0, 0, 0, 0, 170, 187, 204, 222>>)],
   [IdBase EXCEPT !.expiration = 33],
   [IdBase EXCEPT !.clauses = <<>>],
   [IdBase EXCEPT !.gas_price_coef = 0],
   [IdBase EXCEPT !.gas = 21001],
   [IdBase EXCEPT !.depends_on = Some(DependsOnId)],
   [IdBase EXCEPT !.nonce = 12346]}
  \cup {[IdBase EXCEPT !.reserved = r] : r \in IdReserved}

\* Key A's signature over h, and with key B's over hd after it.
IdSignedChoices(h, hd) ==
  {Some(Sign("A", h.val)), Some(Sign("A", h.val) \o Sign("B", hd.val))}

IdSignatureChoices(b) ==
  {None, Some(Junk(SigLen))}
  \cup IdSignedChoices(get_signing_hash(b, None), get_signing_hash(b, Some(AddressA)))

\* other.set_signature(sig), with the first instance's bytes or its own.
SetOtherSignature ==
  \E sig \in {signature} \cup IdSignatureChoices(other.body) :
    /\ other' = [other EXCEPT !.signature = sig]
    /\ Called("set_signature_other", sig, Ok(None))
    /\ UNCHANGED <<body, signature>>

\* get_id() of both instances.
GetIdBoth ==
  /\ Called("get_id_both", None,
            [mine |-> get_id(body, signature),
             theirs |-> get_id(other.body, other.signature)])
  /\ UNCHANGED <<body, signature, other>>

InitId ==
  /\ body \in IdBodies
  /\ signature = None
  /\ other \in {Transaction(b) : b \in IdBodies}
  /\ op = "init"
  /\ arg = None
  /\ ret = Ok(None)

NextId == SetSignatureFrom(IdSignatureChoices(body)) \/ SetOtherSignature \/ GetIdBoth

SpecId == InitId /\ [][NextId]_vars

(***************************************************************************)
(* Properties of the accessors                                             *)
(***************************************************************************)
Accessors == {"get_origin", "get_delegator", "get_id"}

ReturnedNone == IsOk(ret) /\ IsNone(ret.val)

\* The features of the body's Reserved, 0 when there is none.
FeaturesOf(b) ==
  IF IsNone(b.reserved) THEN 0
  ELSE IF IsNone(Get(b.reserved).features) THEN 0
  ELSE Get(Get(b.reserved).features)

\* The unused list of the body's Reserved, empty when there is none.
UnusedOf(b) ==
  IF IsNone(b.reserved) THEN <<>>
  ELSE IF IsNone(Get(b.reserved).unused) THEN <<>>
  ELSE Get(Get(b.reserved).unused)

\* [serialize(features or 0)] ++ unused
Candidate(b) == <<BigEndian(FeaturesOf(b))>> \o UnusedOf(b)

NonEmptyAt(l) == {i \in 1..Len(l) : Len(l[i]) # 0}

\* l truncated right after its right-most non-empty element.
Trimmed(l) ==
  IF NonEmptyAt(l) = {} THEN <<>>
  ELSE SubSeq(l, 1, CHOOSE i \in NonEmptyAt(l) : \A j \in NonEmptyAt(l) : j <= i)

\* C2: the list _encode_reserved returns is the candidate list
\* [serialize(features or 0)] ++ unused truncated right after its right-most
\* non-empty element, the empty list when every element is empty; so it is
\* empty or ends with a non-empty element.  Reserved{features:0, unused:[]}
\* gives [] and Reserved{features:5, unused:['','']} gives [serialize(5)].
C2_EncodeReservedTrimmed ==
  op = "_encode_reserved" =>
    /\ IsOk(ret)
    /\ ret.val = Trimmed(Candidate(body))
    /\ Len(ret.val) = 0 \/ Len(ret.val[Len(ret.val)]) > 0
    /\ body.reserved = Some(Reserved(Some(0), Some(<<>>))) => ret.val = <<>>
    /\ body.reserved = Some(Reserved(Some(5), Some(<<<<>>, <<>>>>))) => ret.val = <<<<5>>>>

C2_Witness ==
  /\ op = "_encode_reserved"
  /\ body.reserved = Some(Reserved(Some(5), Some(<<<<>>, <<>>>>)))
  /\ ret.val = <<<<5>>>>

\* C6: is_delegated() is true iff Body.reserved is present, its features is
\* present and non-zero, and features & 1 == 1 (1 -> true, 2 -> false,
\* 3 -> true), whatever the unused list and the signature are.
C6_IsDelegatedIffBitZero ==
  op = "is_delegated" =>
    /\ IsOk(ret)
    /\ ret.val = (FeaturesOf(body) # 0 /\ FeaturesOf(body) % 2 = 1)
    /\ FeaturesOf(body) \in {1, 3} => ret.val
    /\ FeaturesOf(body) \in {0, 2} => ~ret.val

C6_Witness ==
  /\ op = "is_delegated"
  /\ body.reserved = Some(Reserved(Some(3), Some(<<<<1>>>>)))
  /\ signature = Some(Junk(65))
  /\ ret.val

\* C4: set_signature stores its argument as it is, and whenever the stored
\* signature is absent or its length is not the expected one (130 when the
\* features bit 0 is set, 65 otherwise), get_origin(), get_delegator() and
\* get_id() return None.
C4_SignatureLengthGate ==
  /\ op = "set_signature" => signature = arg
  /\ (/\ op \in Accessors
      /\ \/ IsNone(signature)
         \/ Len(Get(signature)) # (IF FeaturesOf(body) % 2 = 1 THEN 130 ELSE 65))
     => ReturnedNone

\* A delegated transaction (features = 1) with key A's 65-byte signature.
C4_Witness ==
  /\ op = "get_origin"
  /\ FeaturesOf(body) = 1
  /\ ~IsNone(signature)
  /\ Len(Get(signature)) = 65
  /\ Get(signature)[1][1] = "A"
  /\ ReturnedNone

\* sig is key A's signature over h followed by key B's over hd.
IsSigAB(sig, h, hd) ==
  IsOk(h) /\ IsOk(hd) /\ sig = Some(Sign("A", h.val) \o Sign("B", hd.val))

\* The stored signature is sigA ++ sigB on a delegated transaction.
SignedByAThenB ==
  /\ FeaturesOf(body) % 2 = 1
  /\ IsSigAB(signature, get_signing_hash(body, None), get_signing_hash(body, Some(AddressA)))

\* C5: with the signature sigA ++ sigB on a delegated transaction, sigA made
\* by A over get_signing_hash() and sigB by B over
\* get_signing_hash(delegate_for = A's address), get_origin() is A's address
\* and get_delegator() is B's; and get_delegator() returns a value only if the
\* transaction is delegated, the signature has the 130 bytes and get_origin()
\* returns a value.
C5_DelegatorRecovered ==
  /\ (op = "get_origin" /\ SignedByAThenB) => (IsOk(ret) /\ ret.val = Some(AddressA))
  /\ (op = "get_delegator" /\ SignedByAThenB) => (IsOk(ret) /\ ret.val = Some(AddressB))
  /\ (op = "get_delegator" /\ IsOk(ret) /\ ~IsNone(ret.val)) =>
       /\ FeaturesOf(body) % 2 = 1
       /\ ~IsNone(signature)
       /\ Len(Get(signature)) = 130
       /\ ~IsNone(get_origin(body, signature).val)

C5_Witness ==
  /\ op = "get_delegator"
  /\ SignedByAThenB
  /\ ret.val = Some(AddressB)

\* C9: get_signing_hash(delegate_for) on a body that encodes: with no
\* delegate_for it returns the plain hash h; with a delegate_for that is not a
\* well-formed address it raises; with a well-formed one it returns
\* Hash(h || raw_bytes(delegate_for)).
C9_Holds(h) ==
  IF IsNone(arg) THEN IsOk(ret) /\ ret.val = h
  ELSE IF ~IsAddress(Get(arg)) THEN ~IsOk(ret)
  ELSE IsOk(ret) /\ ret.val = Blake2bExtend(h, FromHex(SubSeq(Get(arg), 3, Len(Get(arg)))))

C9_DelegateForValidated ==
  (op = "get_signing_hash" /\ body.chain_tag < 256) =>
    C9_Holds(Blake2bOfWire(encode(body, None).val))

\* C9 for every delegate_for but the empty string.
C9_NonEmptyDelegateFor ==
  (op = "get_signing_hash" /\ body.chain_tag < 256 /\ arg # Some(<<>>)) =>
    C9_Holds(Blake2bOfWire(encode(body, None).val))

\* C10: get_origin(), get_delegator() and get_id() never raise, whatever the
\* body and the stored signature are, and leave both as they were.
C10_AccessorsNeverRaise ==
  /\ [](op \in Accessors => IsOk(ret))
  /\ [][op' \in Accessors => (body' = body /\ signature' = signature)]_vars

\* A 65-byte signature no key made, on a transaction that is not delegated:
\* the recovery is rejected and get_id() returns None.
C10_Witness ==
  /\ op = "get_id"
  /\ FeaturesOf(body) % 2 = 0
  /\ signature = Some(Junk(65))
  /\ ReturnedNone

\* The body does not encode, the signature has the right length: the signing
\* hash raises inside get_origin(), which returns None.
C10_WitnessUnencodable ==
  /\ op = "get_origin"
  /\ body.chain_tag = 256
  /\ signature = Some(Junk(65))
  /\ ReturnedNone

(***************************************************************************)
(* Properties of the gas estimator                                         *)
(***************************************************************************)
\* The bytes of a '0x' string whose two digits are '00', counted from 1.
ZeroBytes(data) ==
  {k \in 1..((Len(data) - 2) \div 2) : data[2 * k + 1] = "0" /\ data[2 * k + 2] = "0"}

ClauseCharge(c) ==
  (IF IsNone(c.to) THEN 48000 ELSE 16000)
  + 4 * Cardinality(ZeroBytes(c.data))
  + 68 * (((Len(c.data) - 2) \div 2) - Cardinality(ZeroBytes(c.data)))

RECURSIVE SumCharges(_)
SumCharges(clauses) ==
  IF Len(clauses) = 0 THEN 0 ELSE ClauseCharge(clauses[1]) + SumCharges(Tail(clauses))

WholeBytes(clauses) == \A i \in 1..Len(clauses) : IsHexString(clauses[i].data)

\* C8: intrinsic_gas is 21000 for the empty list and otherwise 5000 plus, per
\* clause, 16000 when `to` is present or 48000 when it is absent, plus 4 per
\* '00' byte and 68 per other byte of the '0x' data; to present and '0x' is
\* 21000, to absent and '0x' is 53000, to present and '0x00ff' is 21072.
C8_IntrinsicGas ==
  (op \in {"intrinsic_gas", "get_intrinsic_gas"} /\ WholeBytes(arg)) =>
    /\ IsOk(ret)
    /\ ret.val = (IF Len(arg) = 0 THEN 21000 ELSE 5000 + SumCharges(arg))
    /\ arg = <<Clause(Some(ToAddress), 0, <<"0", "x">>)>> => ret.val = 21000
    /\ arg = <<Clause(None, 0, <<"0", "x">>)>> => ret.val = 53000
    /\ arg = <<Clause(Some(ToAddress), 0, <<"0", "x", "0", "0", "f", "f">>)>> => ret.val = 21072

C8_Witness ==
  /\ op = "intrinsic_gas"
  /\ arg = <<Clause(Some(ToAddress), 0, <<"0", "x", "0", "0", "f", "f">>)>>
  /\ ret.val = 21072

\* Three clauses, a creation among them.
C8_WitnessThree ==
  /\ op = "get_intrinsic_gas"
  /\ Len(arg) = 3
  /\ WholeBytes(arg)
  /\ IsNone(arg[2].to)
  /\ IsOk(ret)

(***************************************************************************)
(* Properties of encode and decode                                         *)
(***************************************************************************)
Self == [body |-> body, signature |-> signature]

\* The Reserved survives encode and decode: there is none, or its dict is not
\* empty (features non-zero or unused non-empty) and unused does not end with
\* an empty element.
ReservedRoundTrips(b) ==
  \/ IsNone(b.reserved)
  \/ /\ FeaturesOf(b) # 0 \/ Len(UnusedOf(b)) > 0
     /\ Len(UnusedOf(b)) = 0 \/ Len(UnusedOf(b)[Len(UnusedOf(b))]) > 0

SignatureAbsentOrNonEmpty == IsNone(signature) \/ Len(Get(signature)) > 0

\* C1 as stated: for every Reserved value, Reserved{features:0, unused:[]} and
\* trailing empty unused elements included, and the signature absent or
\* present, decode(tx.encode(), unsigned = (signature absent)) equals tx.
C1_RoundTripAnyReserved ==
  (op = "decode" /\ SignatureAbsentOrNonEmpty) => (IsOk(ret) /\ TxEq(Self, ret.val))

\* C1 amended: decode(tx.encode(), unsigned = (signature absent)) equals tx
\* when the signature is absent or non-empty and the Reserved is absent or has
\* a non-empty dict and no trailing empty unused element; for every other
\* Reserved the decoded transaction differs from tx (the Reserved comes back
\* absent or trimmed), and with an empty signature decode raises.
C1_RoundTripCanonical ==
  op = "decode" =>
    /\ (SignatureAbsentOrNonEmpty /\ ReservedRoundTrips(body)) =>
         (IsOk(ret) /\ TxEq(Self, ret.val))
    /\ (SignatureAbsentOrNonEmpty /\ ~ReservedRoundTrips(body)) =>
         (IsOk(ret) /\ ~TxEq(Self, ret.val) /\ ret.val.signature = signature)
    /\ ~SignatureAbsentOrNonEmpty => ~IsOk(ret)

\* Three clauses, a Reserved with features and unused, a signature.
C1_Witness ==
  /\ op = "decode"
  /\ Len(body.clauses) = 3
  /\ body.reserved = Some(Reserved(Some(1), Some(<<<<>>, <<1>>>>)))
  /\ signature = Some(Junk(65))
  /\ IsOk(ret)
  /\ TxEq(Self, ret.val)

\* The codec decoded the bytes of the last decode call.
CodecDecoded == IsOk(ComplexCodecDecode(arg.raw, ~arg.unsigned))

FeaturesDecodable(e) == Len(e) <= 4 /\ (Len(e) = 0 \/ e[1] # 0)

\* C3: on the decoded reserved list r, decode raises the not-trimmed error when
\* r is non-empty and its last element is empty; gives a Body without Reserved
\* when r is empty; and otherwise gives a Reserved whose features is the
\* decoding of r[0] and whose unused is r[1:], None when r has one element.
C3_Holds(r) ==
  /\ (Len(r) > 0 /\ Len(r[Len(r)]) = 0) =>
       (~IsOk(ret) /\ ret.val = "invalid reserved fields: not trimmed.")
  /\ Len(r) = 0 => (IsOk(ret) /\ IsNone(ret.val.body.reserved))
  /\ (Len(r) > 0 /\ Len(r[Len(r)]) > 0 /\ FeaturesDecodable(r[1])) =>
       /\ IsOk(ret)
       /\ ret.val.body.reserved =
            Some([features |-> Some(FromBigEndian(r[1])),
                  unused |-> IF Len(r) = 1 THEN None ELSE Some(SubSeq(r, 2, Len(r)))])

C3_DecodeReserved == (op = "decode" /\ CodecDecoded) => C3_Holds(arg.raw.reserved)

C3_Witness ==
  /\ op = "decode"
  /\ CodecDecoded
  /\ arg.raw.reserved = <<<<5>>, <<1>>, <<>>>>
  /\ ~IsOk(ret)
  /\ ret.val = "invalid reserved fields: not trimmed."

\* An empty features element before a non-empty unused one.
C3_WitnessZeroFeatures ==
  /\ op = "decode"
  /\ arg.raw.reserved = <<<<>>, <<1>>>>
  /\ IsOk(ret)
  /\ ret.val.body.reserved = Some(Reserved(Some(0), Some(<<<<1>>>>)))

(***************************************************************************)
(* Properties of the id                                                    *)
(***************************************************************************)
BodyFields ==
  {"chain_tag", "block_ref", "expiration", "clauses", "gas_price_coef", "gas",
   "depends_on", "nonce", "reserved"}

\* The Body fields in which the two instances differ.
Changed == {f \in BodyFields : body[f] # other.body[f]}

BothIdsPresent ==
  /\ IsOk(ret.mine) /\ ~IsNone(ret.mine.val)
  /\ IsOk(ret.theirs) /\ ~IsNone(ret.theirs.val)

\* C7 as stated: with the same signature bytes, changing any single Body
\* field changes the get_id() result.
C7_AnyFieldChangesId ==
  (op = "get_id_both" /\ signature = other.signature /\ Cardinality(Changed) = 1
     /\ BothIdsPresent)
    => ret.mine # ret.theirs

\* The only change is one of `reserved` that leaves its canonical list as it was.
SameCanonicalReserved ==
  Changed = {"reserved"} /\ Trimmed(Candidate(body)) = Trimmed(Candidate(other.body))

C7_Holds(h1, h2) ==
  /\ (body = other.body /\ signature = other.signature) => ret.mine = ret.theirs
  /\ (Cardinality(Changed) = 1 /\ SameCanonicalReserved) =>
       (h1 = h2 /\ (signature = other.signature => ret.mine = ret.theirs))
  /\ (Cardinality(Changed) = 1 /\ ~SameCanonicalReserved) =>
       (h1 # h2 /\ (BothIdsPresent => ret.mine # ret.theirs))

\* C7 amended: two instances with the same Body and the same signature bytes
\* have the same get_id(); changing one Body field changes the signing hash,
\* and with it every get_id() that is not None, unless the field is `reserved`
\* and its canonical list stays the same (absent, Reserved{} and
\* Reserved{features:0, unused:[]}; unused with and without trailing empty
\* elements), in which case the signing hash and get_id() stay the same.
C7_IdFollowsCanonicalBody ==
  op = "get_id_both" =>
    C7_Holds(get_signing_hash(body, None), get_signing_hash(other.body, None))

\* The nonce differs, the signature bytes are the same, both ids are there.
C7_Witness ==
  /\ op = "get_id_both"
  /\ Changed = {"nonce"}
  /\ signature = other.signature
  /\ BothIdsPresent
  /\ ret.mine # ret.theirs

\* Same Body, same signature made by key A: the same id, and not None.
C7_WitnessSame ==
  /\ op = "get_id_both"
  /\ body = other.body
  /\ signature = other.signature
  /\ BothIdsPresent
  /\ ret.mine = ret.theirs

====
